---- MODULE Spec2Model ----
(***************************************************************************)
(* Model of portal_data_info.py: the tabular readers, the six tallies, the *)
(* identifier join, the download-by-file-format rollup, the extension      *)
(* derivation (pathlib suffix) and the three report writers, run by the    *)
(* main block top to bottom.                                               *)
(*                                                                         *)
(* Text is modelled as a sequence of one-character strings, so that        *)
(* substring tests, suffix extraction and length tests are computed.       *)
(* A Python dict is a sequence of <<key, value>> pairs with distinct keys, *)
(* in insertion order.                                                     *)
(***************************************************************************)
EXTENDS Integers, Sequences, FiniteSets, TLC

VARIABLES
    pc,                                          \* position in the main block
    file_csv,                                    \* ad_knowledge_portal_files_information.csv
    download_csv,                                \* ad_knowledge_portal_downloads_june_december_2020.csv
    list_of_row_lists_file_info,
    fileFormat_list,
    fileName_list,
    sorted_fileFormat_info,
    sorted_fileNameExtensions_info,
    output_csv,
    list_of_row_lists_download_info,
    sorted_file_identifier_download_info,
    intersection_list_with_file_format_info,
    sorted_file_format_info,
    sorted_filename_format_extensions_info,
    output_csv_2,
    sorted_study_download_info,
    sorted_file_count_info_by_study,
    output_csv_3,
    filename,                                    \* argument of the extension derivation
    suffix,                                      \* its result
    rankA,                                       \* left ranking handed to a writer
    rankB,                                       \* right ranking handed to a writer
    written                                      \* files the writers produced from rankA, rankB

vars == <<pc, file_csv, download_csv, list_of_row_lists_file_info, fileFormat_list,
          fileName_list, sorted_fileFormat_info, sorted_fileNameExtensions_info,
          output_csv, list_of_row_lists_download_info,
          sorted_file_identifier_download_info,
          intersection_list_with_file_format_info, sorted_file_format_info,
          sorted_filename_format_extensions_info, output_csv_2,
          sorted_study_download_info, sorted_file_count_info_by_study,
          output_csv_3, filename, suffix, rankA, rankB, written>>

mainVars == <<file_csv, download_csv, list_of_row_lists_file_info, fileFormat_list,
              fileName_list, sorted_fileFormat_info, sorted_fileNameExtensions_info,
              output_csv, list_of_row_lists_download_info,
              sorted_file_identifier_download_info,
              intersection_list_with_file_format_info, sorted_file_format_info,
              sorted_filename_format_extensions_info, output_csv_2,
              sorted_study_download_info, sorted_file_count_info_by_study,
              output_csv_3>>

(***************************************************************************)
(* Bounds of the model.                                                    *)
(***************************************************************************)
MaxFiles == 2

MaxDownloads == 3

MaxNameLen == 4

MaxRank == 2

MaxCount == 2

(***************************************************************************)
(* Sequences and text.                                                     *)
(***************************************************************************)
Front(s) == SubSeq(s, 1, Len(s) - 1)

Last(s) == s[Len(s)]

SeqsUpTo(S, n) == UNION {[1..k -> S] : k \in 0..n}

\* Python "x in s" for two strings: x occurs in s as a contiguous substring.
StrContains(x, s) ==
    \E i \in 0..(Len(s) - Len(x)) : SubSeq(s, i + 1, i + Len(x)) = x

\* str.rfind('.') as a 1-based position, 0 when there is none.
RFindDot(s) ==
    IF \E i \in 1..Len(s) : s[i] = "."
    THEN CHOOSE i \in 1..Len(s) : s[i] = "." /\ \A j \in (i + 1)..Len(s) : s[j] # "."
    ELSE 0

Digit(d) == <<CASE d = 0 -> "0" [] d = 1 -> "1" [] d = 2 -> "2" [] d = 3 -> "3"
                [] d = 4 -> "4" [] d = 5 -> "5" [] d = 6 -> "6" [] d = 7 -> "7"
                [] d = 8 -> "8" [] OTHER -> "9">>

RECURSIVE IntToStr(_)
\* str(n) for a non-negative int.
IntToStr(n) == IF n < 10 THEN Digit(n) ELSE IntToStr(n \div 10) \o Digit(n % 10)

(***************************************************************************)
(* Python dict as an insertion-ordered sequence of <<key, value>> pairs.   *)
(***************************************************************************)
DictKeys(d) == {d[i][1] : i \in 1..Len(d)}

DictIndex(d, k) == CHOOSE i \in 1..Len(d) : d[i][1] = k

DictGet(d, k) == d[DictIndex(d, k)][2]

\* d[k] = v: an existing key keeps its position, a new key goes last.
DictSet(d, k, v) ==
    IF k \in DictKeys(d)
    THEN [d EXCEPT ![DictIndex(d, k)] = <<k, v>>]
    ELSE Append(d, <<k, v>>)

RECURSIVE SumValues(_)
SumValues(d) == IF d = <<>> THEN 0 ELSE SumValues(Front(d)) + Last(d)[2]

(***************************************************************************)
(* Tabular Reader.  A source table is a header (column names) and rows of  *)
(* raw text fields aligned with the header.                                *)
(***************************************************************************)
\* The DataFrame cell pandas holds for a missing value (float NaN).
NaN == <<"float nan">>

\* str(NaN)
NanString == <<"n", "a", "n">>

\* Fields pd.read_csv parses as missing (its default NA strings that the
\* model's alphabet can spell).
NaValues == {<<>>, <<"N", "A">>, NanString}

\* pd.read_csv(filename, dtype=str): every field a string, missing ones NaN;
\* a line with fewer fields than the header is padded with NaN.
read_csv(table) ==
    [columns |-> table.header,
     rows |-> [i \in 1..Len(table.rows) |->
                 [j \in 1..Len(table.header) |->
                    IF j > Len(table.rows[i]) THEN NaN
                    ELSE IF table.rows[i][j] \in NaValues THEN NaN
                    ELSE table.rows[i][j]]]]

\* df.reindex(columns = output_headers): the requested columns in the
\* requested order; a column the frame lacks is all NaN.
reindex(df, output_headers) ==
    [columns |-> output_headers,
     rows |-> [i \in 1..Len(df.rows) |->
                 [j \in 1..Len(output_headers) |->
                    IF \E c \in 1..Len(df.columns) : df.columns[c] = output_headers[j]
                    THEN df.rows[i][CHOOSE c \in 1..Len(df.columns) :
                                       df.columns[c] = output_headers[j]]
                    ELSE NaN]]]

\* A test for the empty string in place of pd.isnull.
cell_is_empty_string(cell) == cell = <<>>

\* pd.isnull(cell), line 95
pd_isnull(cell) == cell = NaN

\* The loop over df.index: each row as a list, null cells replaced by str(cell).
RowLists(df) ==
    [i \in 1..Len(df.rows) |->
       [j \in 1..Len(df.rows[i]) |->
          IF pd_isnull(df.rows[i][j]) THEN NanString ELSE df.rows[i][j]]]

file_output_headers == <<"fileFormat", "name", "id", "study">>

download_output_headers == <<"id", "name", "study">>

read_file_info_csv_with_pandas(table) ==
    RowLists(reindex(read_csv(table), file_output_headers))

read_download_info_csv_with_pandas(table) ==
    RowLists(reindex(read_csv(table), download_output_headers))

(***************************************************************************)
(* Section 1 helpers: column projections.                                  *)
(***************************************************************************)
create_fileFormat_list(rows) == [i \in 1..Len(rows) |-> rows[i][1]]

create_fileName_list(rows) == [i \in 1..Len(rows) |-> rows[i][2]]

(***************************************************************************)
(* Extension derivation: pathlib.Path(name).suffix on a POSIX path.        *)
(***************************************************************************)
RECURSIVE SplitSlash(_)
\* str.split('/')
SplitSlash(s) ==
    IF \E i \in 1..Len(s) : s[i] = "/"
    THEN LET i == CHOOSE k \in 1..Len(s) : s[k] = "/" /\ \A j \in 1..(k - 1) : s[j] # "/"
         IN <<SubSeq(s, 1, i - 1)>> \o SplitSlash(SubSeq(s, i + 1, Len(s)))
    ELSE <<s>>

IsPathPart(x) == x # <<>> /\ x # <<".">>

\* The parsed parts of the path below its root: empty and '.' components dropped.
PathParts(s) == SelectSeq(SplitSlash(s), IsPathPart)

\* PurePath.name: the final component, '' when there is none.
PathName(s) == IF PathParts(s) = <<>> THEN <<>> ELSE Last(PathParts(s))

\* A plausible slip: a leading dot taken as the start of an extension.
PathSuffixLeadingDot(s) ==
    LET name == PathName(s)
        i == RFindDot(name) - 1
    IN IF 0 <= i /\ i < Len(name) - 1 THEN SubSeq(name, i + 1, Len(name)) ELSE <<>>

\* A plausible slip: the extension taken from the first dot of the name
\* (str.find in place of str.rfind).
PathSuffixFromFirstDot(s) ==
    LET name == PathName(s)
        i == IF \E k \in 1..Len(name) : name[k] = "."
             THEN (CHOOSE k \in 1..Len(name) :
                      name[k] = "." /\ \A j \in 1..(k - 1) : name[j] # ".") - 1
             ELSE -1
    IN IF 0 < i /\ i < Len(name) - 1 THEN SubSeq(name, i + 1, Len(name)) ELSE <<>>

\* PurePath.suffix: name[i:] for i = name.rfind('.') when 0 < i < len(name) - 1.
PathSuffix(s) ==
    LET name == PathName(s)
        i == RFindDot(name) - 1
    IN IF 0 < i /\ i < Len(name) - 1 THEN SubSeq(name, i + 1, Len(name)) ELSE <<>>

(***************************************************************************)
(* Frequency Counter.                                                      *)
(***************************************************************************)
\* A plausible slip: rows whose key is the null marker are skipped.
CountIntoSkippingNull(d, key) ==
    IF key = NanString THEN d
    ELSE IF key \in DictKeys(d) THEN DictSet(d, key, DictGet(d, key) + 1)
    ELSE DictSet(d, key, 1)

\* A plausible slip: only consecutive occurrences counted (the key compared
\* with the one counted last, as for sorted input), the count starting
\* over otherwise.
CountIntoConsecutive(d, key) ==
    IF d # <<>> /\ Last(d)[1] = key THEN DictSet(d, key, DictGet(d, key) + 1)
    ELSE DictSet(d, key, 1)

\* One pass of a tally loop: d[key] += 1, or d[key] = 1 for a new key.
CountInto(d, key) ==
    IF key \in DictKeys(d) THEN DictSet(d, key, DictGet(d, key) + 1)
    ELSE DictSet(d, key, 1)

RECURSIVE Tally(_)
\* The tally loop over a list of keys, first to last.
Tally(keys) == IF keys = <<>> THEN <<>> ELSE CountInto(Tally(Front(keys)), Last(keys))

\* x placed behind every entry whose count is at least x's.
InsertDesc(sorted, x) ==
    LET n == Cardinality({i \in 1..Len(sorted) : sorted[i][2] >= x[2]})
    IN SubSeq(sorted, 1, n) \o <<x>> \o SubSeq(sorted, n + 1, Len(sorted))

RECURSIVE StableDesc(_)
StableDesc(items) ==
    IF items = <<>> THEN <<>> ELSE InsertDesc(StableDesc(Front(items)), Last(items))

Reverse(s) == [i \in 1..Len(s) |-> s[Len(s) + 1 - i]]

\* A plausible slip: an ascending sort reversed, which reverses ties.
SortedAscendingReversed(items) == StableDesc(Reverse(items))

\* sorted(d.items(), key=lambda x: x[1], reverse=True): by count, largest
\* first; the sort is stable, so equal counts keep their order in items.
SortedByCountDesc(items) == StableDesc(items)

count_fileFormats(fileFormat_list_) == SortedByCountDesc(Tally(fileFormat_list_))

count_fileNameExtensions(fileName_list_) ==
    SortedByCountDesc(Tally([i \in 1..Len(fileName_list_) |-> PathSuffix(fileName_list_[i])]))

download_frequency_by_identifier(rows) ==
    SortedByCountDesc(Tally([i \in 1..Len(rows) |-> rows[i][1]]))

download_frequency_by_filename_format_extension(rows) ==
    SortedByCountDesc(Tally([i \in 1..Len(rows) |-> PathSuffix(rows[i][2])]))

download_count_by_study(rows) ==
    SortedByCountDesc(Tally([i \in 1..Len(rows) |-> rows[i][3]]))

file_count_by_study(rows) ==
    SortedByCountDesc(Tally([i \in 1..Len(rows) |-> rows[i][4]]))

(***************************************************************************)
(* Join/Intersection Engine.                                               *)
(***************************************************************************)
\* list(set(set_1).intersection(set_2)): used for membership tests only.
intersection_list(file_rows, download_rows) ==
    {file_rows[i][3] : i \in 1..Len(file_rows)}
        \cap {download_rows[i][1] : i \in 1..Len(download_rows)}

IdIsDownloaded(file_rows, download_rows, rec) ==
    rec[3] \in intersection_list(file_rows, download_rows)

RECURSIVE FirstPerId(_)
FirstPerId(entries) ==
    IF entries = <<>> THEN <<>>
    ELSE IF \E i \in 1..(Len(entries) - 1) : entries[i][1] = Last(entries)[1]
    THEN FirstPerId(Front(entries))
    ELSE Append(FirstPerId(Front(entries)), Last(entries))

\* A plausible slip: one entry per distinct identifier instead of one per
\* file record.
create_intersection_list_dedup(file_rows, download_rows) ==
    LET matched == SelectSeq(file_rows,
                             LAMBDA rec : IdIsDownloaded(file_rows, download_rows, rec))
    IN FirstPerId([i \in 1..Len(matched) |-> <<matched[i][3], matched[i][1]>>])

\* The re-scan of the file records: [id, fileFormat] for each record whose
\* id is in intersection_list, in file-record order.
create_intersection_list(file_rows, download_rows) ==
    LET matched == SelectSeq(file_rows,
                             LAMBDA rec : IdIsDownloaded(file_rows, download_rows, rec))
    IN [i \in 1..Len(matched) |-> <<matched[i][3], matched[i][1]>>]

(***************************************************************************)
(* Download count by file format.                                          *)
(***************************************************************************)
RECURSIVE FormatBuckets(_)
\* First loop: a bucket of 0 for every format of the intersection entries,
\* in order of first occurrence.
FormatBuckets(entries) ==
    IF entries = <<>> THEN <<>>
    ELSE LET d == FormatBuckets(Front(entries))
             fmt == Last(entries)[2]
         IN IF fmt \notin DictKeys(d) THEN DictSet(d, fmt, 0) ELSE d

\* A plausible slip: the identifier compared with the entry's format
\* component instead of its identifier component.
AddIfMatchesWrongComponent(d, key, value, sub_list) ==
    IF StrContains(key, sub_list[2])
    THEN DictSet(d, sub_list[2], DictGet(d, sub_list[2]) + value)
    ELSE d

\* A plausible slip: one download counted per identifier instead of its count.
AddIfMatchesOnePerId(d, key, value, sub_list) ==
    IF StrContains(key, sub_list[1])
    THEN DictSet(d, sub_list[2], DictGet(d, sub_list[2]) + 1)
    ELSE d

\* Body of the inner loop: "if key in sub_list[0]" is Python's substring
\* test of the download identifier in the entry's identifier.
AddIfMatches(d, key, value, sub_list) ==
    IF StrContains(key, sub_list[1])
    THEN DictSet(d, sub_list[2], DictGet(d, sub_list[2]) + value)
    ELSE d

RECURSIVE InnerLoop(_, _, _, _)
\* for sub_list in intersection_list_with_file_format_info
InnerLoop(d, key, value, entries) ==
    IF entries = <<>> THEN d
    ELSE AddIfMatches(InnerLoop(d, key, value, Front(entries)), key, value, Last(entries))

RECURSIVE OuterLoop(_, _, _)
\* for key, value in sorted_file_identifier_download_info.items()
OuterLoop(d, items, entries) ==
    IF items = <<>> THEN d
    ELSE InnerLoop(OuterLoop(d, Front(items), entries),
                   Last(items)[1], Last(items)[2], entries)

download_frequency_by_file_format(entries, id_counts) ==
    SortedByCountDesc(OuterLoop(FormatBuckets(entries), id_counts, entries))

(***************************************************************************)
(* Report Writer: csv.DictWriter over six field names.                     *)
(***************************************************************************)
NullToken == <<"[", "N", "U", "L", "L", "]">>

\* Values of a row dict: a str or an int.
PyStr(s) == [str |-> s]

PyInt(n) == [int |-> n]

\* The csv writer's text for a field: str() of a number, a string as it is.
CsvField(v) == IF "int" \in DOMAIN v THEN IntToStr(v.int) ELSE v.str

\* DictWriter.writerow: for each field name in order, the row dict's value
\* under that name, or the empty rest value when the dict has none.
writerow(fieldnames, rowdict) ==
    [i \in 1..Len(fieldnames) |->
       IF fieldnames[i] \in DOMAIN rowdict THEN CsvField(rowdict[fieldnames[i]]) ELSE <<>>]

\* The first loop of a writer: key and count under the left block's names.
LeftRows(fieldnames, keyName, countName, ranking) ==
    [i \in 1..Len(ranking) |->
       writerow(fieldnames, (keyName :> PyStr(ranking[i][1]))
                            @@ (countName :> PyInt(ranking[i][2])))]

\* The second loop: an empty key is replaced by "[NULL]" before the row is
\* written under the right block's names.
RightRows(fieldnames, keyName, countName, ranking) ==
    [i \in 1..Len(ranking) |->
       LET key == IF Len(ranking[i][1]) = 0 THEN NullToken ELSE ranking[i][1]
       IN writerow(fieldnames, (keyName :> PyStr(key)) @@ (countName :> PyInt(ranking[i][2])))]

\* The field names of the three reports, spelled out as text (lines 268,
\* 596, 726).
fileFormat_value ==
    <<"f", "i", "l", "e", "F", "o", "r", "m", "a", "t", " ", "v", "a", "l",
      "u", "e">>

fileFormat_count ==
    <<"f", "i", "l", "e", "F", "o", "r", "m", "a", "t", " ", "c", "o", "u",
      "n", "t">>

fileName_extension_value ==
    <<"f", "i", "l", "e", "N", "a", "m", "e", " ", "e", "x", "t", "e", "n",
      "s", "i", "o", "n", " ", "v", "a", "l", "u", "e">>

fileName_extension_count ==
    <<"f", "i", "l", "e", "N", "a", "m", "e", " ", "e", "x", "t", "e", "n",
      "s", "i", "o", "n", " ", "c", "o", "u", "n", "t">>

fileFormat_download_count ==
    <<"f", "i", "l", "e", "F", "o", "r", "m", "a", "t", " ", "d", "o", "w",
      "n", "l", "o", "a", "d", " ", "c", "o", "u", "n", "t">>

fileName_format_extension_value ==
    <<"f", "i", "l", "e", "N", "a", "m", "e", " ", "f", "o", "r", "m", "a",
      "t", " ", "e", "x", "t", "e", "n", "s", "i", "o", "n", " ", "v", "a",
      "l", "u", "e">>

fileName_format_extension_download_count ==
    <<"f", "i", "l", "e", "N", "a", "m", "e", " ", "f", "o", "r", "m", "a",
      "t", " ", "e", "x", "t", "e", "n", "s", "i", "o", "n", " ", "d", "o",
      "w", "n", "l", "o", "a", "d", " ", "c", "o", "u", "n", "t">>

study_name ==
    <<"s", "t", "u", "d", "y">>

number_of_file_downloads ==
    <<"n", "u", "m", "b", "e", "r", " ", "o", "f", " ", "f", "i", "l", "e",
      " ", "d", "o", "w", "n", "l", "o", "a", "d", "s">>

number_of_files_in_AD_Knowledge_Portal ==
    <<"n", "u", "m", "b", "e", "r", " ", "o", "f", " ", "f", "i", "l", "e",
      "s", " ", "i", "n", " ", "A", "D", " ", "K", "n", "o", "w", "l", "e",
      "d", "g", "e", " ", "P", "o", "r", "t", "a", "l">>

preliminary_fieldnames ==
    <<fileFormat_value, fileFormat_count, <<>>, <<>>,
      fileName_extension_value, fileName_extension_count>>

download_fieldnames ==
    <<fileFormat_value, fileFormat_download_count, <<>>, <<>>,
      fileName_format_extension_value, fileName_format_extension_download_count>>

study_fieldnames ==
    <<study_name, number_of_file_downloads, <<>>, <<>>,
      study_name, number_of_files_in_AD_Knowledge_Portal>>

write_preliminary_data_processing_results(left, right) ==
    [header |-> preliminary_fieldnames,
     rows |-> LeftRows(preliminary_fieldnames, fileFormat_value, fileFormat_count, left)
              \o RightRows(preliminary_fieldnames, fileName_extension_value,
                           fileName_extension_count, right)]

write_download_info_to_csv_file(left, right) ==
    [header |-> download_fieldnames,
     rows |-> LeftRows(download_fieldnames, fileFormat_value,
                       fileFormat_download_count, left)
              \o RightRows(download_fieldnames, fileName_format_extension_value,
                           fileName_format_extension_download_count, right)]

write_study_info_to_csv_file(left, right) ==
    [header |-> study_fieldnames,
     rows |-> LeftRows(study_fieldnames, study_name, number_of_file_downloads, left)
              \o RightRows(study_fieldnames, study_name,
                           number_of_files_in_AD_Knowledge_Portal, right)]

\* No file at the output path yet.
NoFile == [header |-> <<>>, rows |-> <<>>]

(***************************************************************************)
(* Inputs.  The two source tables carry their columns in an order of       *)
(* their own plus a column the readers do not ask for.                     *)
(***************************************************************************)
IdA == <<"A">>

IdB == <<"B">>

IdC == <<"C">>

IdAB == <<"A", "B">>

Csv == <<"c", "s", "v">>

Txt == <<"t", "x", "t">>

file_csv_header == <<"id", "name", "fileFormat", "study", "dataType">>

FileSourceRows ==
    { <<IdA, <<"a", ".", "c">>, Csv, <<"s">>, <<"x">>>>,
      <<IdB, <<"a">>, Txt, <<>>, <<"x">>>>,
      <<IdAB, <<".", "c">>, Txt, <<"t">>, <<>>>> }

download_csv_header == <<"name", "id", "recordDate", "study">>

DownloadSourceRows ==
    { << <<"a", ".", "c">>, IdA, <<"x">>, <<"s">> >>,
      << <<"a">>, IdC, <<"x">>, <<"t">> >>,
      << <<"b", ".", "c", ".", "d">>, IdAB, <<>>, <<>> >>,
      << <<>>, IdB, <<"x">>, <<"s">> >> }

NameAlphabet == {"a", ".", "/"}

\* The filenames of the written examples, beside every short name over the alphabet.
ExampleNames ==
    { <<"a", ".", "c", "s", "v">>, <<"a", ".", "t", "a", "r", ".", "g", "z">>, NanString }

Names == SeqsUpTo(NameAlphabet, MaxNameLen) \cup ExampleNames

RankKeys == {<<>>, <<"s">>, <<"t">>}

\* The ranked tables a writer can be handed: distinct keys, counts at least
\* 1, largest count first.
Rankings ==
    { r \in SeqsUpTo(RankKeys \X (1..MaxCount), MaxRank) :
        /\ \A i, j \in 1..Len(r) : i # j => r[i][1] # r[j][1]
        /\ \A i \in 1..(Len(r) - 1) : r[i][2] >= r[i + 1][2] }

(***************************************************************************)
(* The main block.                                                         *)
(***************************************************************************)
MainIdle ==
    /\ list_of_row_lists_file_info = <<>>
    /\ fileFormat_list = <<>>
    /\ fileName_list = <<>>
    /\ sorted_fileFormat_info = <<>>
    /\ sorted_fileNameExtensions_info = <<>>
    /\ output_csv = NoFile
    /\ list_of_row_lists_download_info = <<>>
    /\ sorted_file_identifier_download_info = <<>>
    /\ intersection_list_with_file_format_info = <<>>
    /\ sorted_file_format_info = <<>>
    /\ sorted_filename_format_extensions_info = <<>>
    /\ output_csv_2 = NoFile
    /\ sorted_study_download_info = <<>>
    /\ sorted_file_count_info_by_study = <<>>
    /\ output_csv_3 = NoFile

HarnessIdle ==
    /\ filename = <<>>
    /\ suffix = <<>>
    /\ rankA = <<>>
    /\ rankB = <<>>
    /\ written = [preliminary |-> NoFile, download |-> NoFile, study |-> NoFile]

Init ==
    /\ pc = "output_message"
    /\ file_csv \in {[header |-> file_csv_header, rows |-> r] :
                        r \in SeqsUpTo(FileSourceRows, MaxFiles)}
    /\ download_csv \in {[header |-> download_csv_header, rows |-> r] :
                            r \in SeqsUpTo(DownloadSourceRows, MaxDownloads)}
    /\ MainIdle
    /\ HarnessIdle

harnessVars == <<filename, suffix, rankA, rankB, written>>

\* line 756: output_message() writes the standby message to standard output
\* and flushes it (lines 34-35); it assigns nothing.
OutputMessage ==
    /\ pc = "output_message"
    /\ pc' = "read_file_info"
    /\ UNCHANGED <<mainVars, harnessVars>>

\* line 769
ReadFileInfo ==
    /\ pc = "read_file_info"
    /\ list_of_row_lists_file_info' = read_file_info_csv_with_pandas(file_csv)
    /\ pc' = "create_fileFormat_list"
    /\ UNCHANGED <<file_csv, download_csv, fileFormat_list, fileName_list,
                   sorted_fileFormat_info, sorted_fileNameExtensions_info, output_csv,
                   list_of_row_lists_download_info, sorted_file_identifier_download_info,
                   intersection_list_with_file_format_info, sorted_file_format_info,
                   sorted_filename_format_extensions_info, output_csv_2,
                   sorted_study_download_info, sorted_file_count_info_by_study,
                   output_csv_3, harnessVars>>

\* line 773
CreateFileFormatList ==
    /\ pc = "create_fileFormat_list"
    /\ fileFormat_list' = create_fileFormat_list(list_of_row_lists_file_info)
    /\ pc' = "create_fileName_list"
    /\ UNCHANGED <<file_csv, download_csv, list_of_row_lists_file_info, fileName_list,
                   sorted_fileFormat_info, sorted_fileNameExtensions_info, output_csv,
                   list_of_row_lists_download_info, sorted_file_identifier_download_info,
                   intersection_list_with_file_format_info, sorted_file_format_info,
                   sorted_filename_format_extensions_info, output_csv_2,
                   sorted_study_download_info, sorted_file_count_info_by_study,
                   output_csv_3, harnessVars>>

\* line 777
CreateFileNameList ==
    /\ pc = "create_fileName_list"
    /\ fileName_list' = create_fileName_list(list_of_row_lists_file_info)
    /\ pc' = "count_fileFormats"
    /\ UNCHANGED <<file_csv, download_csv, list_of_row_lists_file_info, fileFormat_list,
                   sorted_fileFormat_info, sorted_fileNameExtensions_info, output_csv,
                   list_of_row_lists_download_info, sorted_file_identifier_download_info,
                   intersection_list_with_file_format_info, sorted_file_format_info,
                   sorted_filename_format_extensions_info, output_csv_2,
                   sorted_study_download_info, sorted_file_count_info_by_study,
                   output_csv_3, harnessVars>>

\* line 781
CountFileFormats ==
    /\ pc = "count_fileFormats"
    /\ sorted_fileFormat_info' = count_fileFormats(fileFormat_list)
    /\ pc' = "count_fileNameExtensions"
    /\ UNCHANGED <<file_csv, download_csv, list_of_row_lists_file_info, fileFormat_list,
                   fileName_list, sorted_fileNameExtensions_info, output_csv,
                   list_of_row_lists_download_info, sorted_file_identifier_download_info,
                   intersection_list_with_file_format_info, sorted_file_format_info,
                   sorted_filename_format_extensions_info, output_csv_2,
                   sorted_study_download_info, sorted_file_count_info_by_study,
                   output_csv_3, harnessVars>>

\* line 790
CountFileNameExtensions ==
    /\ pc = "count_fileNameExtensions"
    /\ sorted_fileNameExtensions_info' = count_fileNameExtensions(fileName_list)
    /\ pc' = "write_preliminary"
    /\ UNCHANGED <<file_csv, download_csv, list_of_row_lists_file_info, fileFormat_list,
                   fileName_list, sorted_fileFormat_info, output_csv,
                   list_of_row_lists_download_info, sorted_file_identifier_download_info,
                   intersection_list_with_file_format_info, sorted_file_format_info,
                   sorted_filename_format_extensions_info, output_csv_2,
                   sorted_study_download_info, sorted_file_count_info_by_study,
                   output_csv_3, harnessVars>>

\* A plausible slip: the writer without the copy of line 278, putting
\* "[NULL]" into the entries of the ranking it was passed.
WritePreliminaryResultsInPlace ==
    /\ pc = "write_preliminary"
    /\ output_csv' = write_preliminary_data_processing_results(
                         sorted_fileFormat_info, sorted_fileNameExtensions_info)
    /\ sorted_fileNameExtensions_info' =
          [i \in 1..Len(sorted_fileNameExtensions_info) |->
             IF Len(sorted_fileNameExtensions_info[i][1]) = 0
             THEN <<NullToken, sorted_fileNameExtensions_info[i][2]>>
             ELSE sorted_fileNameExtensions_info[i]]
    /\ pc' = "reread_file_info"
    /\ UNCHANGED <<file_csv, download_csv, list_of_row_lists_file_info, fileFormat_list,
                   fileName_list, sorted_fileFormat_info,
                   list_of_row_lists_download_info, sorted_file_identifier_download_info,
                   intersection_list_with_file_format_info, sorted_file_format_info,
                   sorted_filename_format_extensions_info, output_csv_2,
                   sorted_study_download_info, sorted_file_count_info_by_study,
                   output_csv_3, harnessVars>>

\* line 798
WritePreliminaryResults ==
    /\ pc = "write_preliminary"
    /\ output_csv' = write_preliminary_data_processing_results(
                         sorted_fileFormat_info, sorted_fileNameExtensions_info)
    /\ pc' = "reread_file_info"
    /\ UNCHANGED <<file_csv, download_csv, list_of_row_lists_file_info, fileFormat_list,
                   fileName_list, sorted_fileFormat_info, sorted_fileNameExtensions_info,
                   list_of_row_lists_download_info, sorted_file_identifier_download_info,
                   intersection_list_with_file_format_info, sorted_file_format_info,
                   sorted_filename_format_extensions_info, output_csv_2,
                   sorted_study_download_info, sorted_file_count_info_by_study,
                   output_csv_3, harnessVars>>

\* line 818
RereadFileInfo ==
    /\ pc = "reread_file_info"
    /\ list_of_row_lists_file_info' = read_file_info_csv_with_pandas(file_csv)
    /\ pc' = "read_download_info"
    /\ UNCHANGED <<file_csv, download_csv, fileFormat_list, fileName_list,
                   sorted_fileFormat_info, sorted_fileNameExtensions_info, output_csv,
                   list_of_row_lists_download_info, sorted_file_identifier_download_info,
                   intersection_list_with_file_format_info, sorted_file_format_info,
                   sorted_filename_format_extensions_info, output_csv_2,
                   sorted_study_download_info, sorted_file_count_info_by_study,
                   output_csv_3, harnessVars>>

\* line 820
ReadDownloadInfo ==
    /\ pc = "read_download_info"
    /\ list_of_row_lists_download_info' = read_download_info_csv_with_pandas(download_csv)
    /\ pc' = "download_frequency_by_identifier"
    /\ UNCHANGED <<file_csv, download_csv, list_of_row_lists_file_info, fileFormat_list,
                   fileName_list, sorted_fileFormat_info, sorted_fileNameExtensions_info,
                   output_csv, sorted_file_identifier_download_info,
                   intersection_list_with_file_format_info, sorted_file_format_info,
                   sorted_filename_format_extensions_info, output_csv_2,
                   sorted_study_download_info, sorted_file_count_info_by_study,
                   output_csv_3, harnessVars>>

\* line 824
DownloadFrequencyByIdentifier ==
    /\ pc = "download_frequency_by_identifier"
    /\ sorted_file_identifier_download_info' = download_frequency_by_identifier(list_of_row_lists_download_info)
    /\ pc' = "create_intersection_list"
    /\ UNCHANGED <<file_csv, download_csv, list_of_row_lists_file_info,
                   fileFormat_list, fileName_list,
                   sorted_fileFormat_info,
                   sorted_fileNameExtensions_info, output_csv,
                   list_of_row_lists_download_info,
                   intersection_list_with_file_format_info,
                   sorted_file_format_info,
                   sorted_filename_format_extensions_info, output_csv_2,
                   sorted_study_download_info,
                   sorted_file_count_info_by_study, output_csv_3,
                   harnessVars>>

\* line 828
CreateIntersectionList ==
    /\ pc = "create_intersection_list"
    /\ intersection_list_with_file_format_info' = create_intersection_list(
           list_of_row_lists_file_info, list_of_row_lists_download_info)
    /\ pc' = "download_frequency_by_file_format"
    /\ UNCHANGED <<file_csv, download_csv, list_of_row_lists_file_info,
                   fileFormat_list, fileName_list,
                   sorted_fileFormat_info,
                   sorted_fileNameExtensions_info, output_csv,
                   list_of_row_lists_download_info,
                   sorted_file_identifier_download_info,
                   sorted_file_format_info,
                   sorted_filename_format_extensions_info, output_csv_2,
                   sorted_study_download_info,
                   sorted_file_count_info_by_study, output_csv_3,
                   harnessVars>>

\* line 830
DownloadFrequencyByFileFormat ==
    /\ pc = "download_frequency_by_file_format"
    /\ sorted_file_format_info' = download_frequency_by_file_format(
           intersection_list_with_file_format_info, sorted_file_identifier_download_info)
    /\ pc' = "download_frequency_by_extension"
    /\ UNCHANGED <<file_csv, download_csv, list_of_row_lists_file_info,
                   fileFormat_list, fileName_list,
                   sorted_fileFormat_info,
                   sorted_fileNameExtensions_info, output_csv,
                   list_of_row_lists_download_info,
                   sorted_file_identifier_download_info,
                   intersection_list_with_file_format_info,
                   sorted_filename_format_extensions_info, output_csv_2,
                   sorted_study_download_info,
                   sorted_file_count_info_by_study, output_csv_3,
                   harnessVars>>

\* line 834
DownloadFrequencyByExtension ==
    /\ pc = "download_frequency_by_extension"
    /\ sorted_filename_format_extensions_info' = download_frequency_by_filename_format_extension(
           list_of_row_lists_download_info)
    /\ pc' = "write_download_info"
    /\ UNCHANGED <<file_csv, download_csv, list_of_row_lists_file_info,
                   fileFormat_list, fileName_list,
                   sorted_fileFormat_info,
                   sorted_fileNameExtensions_info, output_csv,
                   list_of_row_lists_download_info,
                   sorted_file_identifier_download_info,
                   intersection_list_with_file_format_info,
                   sorted_file_format_info, output_csv_2,
                   sorted_study_download_info,
                   sorted_file_count_info_by_study, output_csv_3,
                   harnessVars>>

\* A plausible slip: the download report written before its left ranking
\* is computed (the calls of lines 830 and 838 in the wrong order).
WriteDownloadInfoBeforeRollup ==
    /\ pc = "download_frequency_by_file_format"
    /\ output_csv_2' = write_download_info_to_csv_file(
           sorted_file_format_info, sorted_filename_format_extensions_info)
    /\ pc' = "download_frequency_by_extension"
    /\ UNCHANGED <<file_csv, download_csv, list_of_row_lists_file_info, fileFormat_list,
                   fileName_list, sorted_fileFormat_info, sorted_fileNameExtensions_info,
                   output_csv, list_of_row_lists_download_info,
                   sorted_file_identifier_download_info,
                   intersection_list_with_file_format_info, sorted_file_format_info,
                   sorted_filename_format_extensions_info,
                   sorted_study_download_info, sorted_file_count_info_by_study,
                   output_csv_3, harnessVars>>

\* line 838
WriteDownloadInfo ==
    /\ pc = "write_download_info"
    /\ output_csv_2' = write_download_info_to_csv_file(
           sorted_file_format_info, sorted_filename_format_extensions_info)
    /\ pc' = "download_count_by_study"
    /\ UNCHANGED <<file_csv, download_csv, list_of_row_lists_file_info,
                   fileFormat_list, fileName_list,
                   sorted_fileFormat_info,
                   sorted_fileNameExtensions_info, output_csv,
                   list_of_row_lists_download_info,
                   sorted_file_identifier_download_info,
                   intersection_list_with_file_format_info,
                   sorted_file_format_info,
                   sorted_filename_format_extensions_info,
                   sorted_study_download_info,
                   sorted_file_count_info_by_study, output_csv_3,
                   harnessVars>>

\* line 852
DownloadCountByStudy ==
    /\ pc = "download_count_by_study"
    /\ sorted_study_download_info' = download_count_by_study(list_of_row_lists_download_info)
    /\ pc' = "file_count_by_study"
    /\ UNCHANGED <<file_csv, download_csv, list_of_row_lists_file_info,
                   fileFormat_list, fileName_list,
                   sorted_fileFormat_info,
                   sorted_fileNameExtensions_info, output_csv,
                   list_of_row_lists_download_info,
                   sorted_file_identifier_download_info,
                   intersection_list_with_file_format_info,
                   sorted_file_format_info,
                   sorted_filename_format_extensions_info, output_csv_2,
                   sorted_file_count_info_by_study, output_csv_3,
                   harnessVars>>

\* line 856
FileCountByStudy ==
    /\ pc = "file_count_by_study"
    /\ sorted_file_count_info_by_study' = file_count_by_study(list_of_row_lists_file_info)
    /\ pc' = "write_study_info"
    /\ UNCHANGED <<file_csv, download_csv, list_of_row_lists_file_info,
                   fileFormat_list, fileName_list,
                   sorted_fileFormat_info,
                   sorted_fileNameExtensions_info, output_csv,
                   list_of_row_lists_download_info,
                   sorted_file_identifier_download_info,
                   intersection_list_with_file_format_info,
                   sorted_file_format_info,
                   sorted_filename_format_extensions_info, output_csv_2,
                   sorted_study_download_info, output_csv_3, harnessVars>>

\* line 860
WriteStudyInfo ==
    /\ pc = "write_study_info"
    /\ output_csv_3' = write_study_info_to_csv_file(
           sorted_study_download_info, sorted_file_count_info_by_study)
    /\ pc' = "done"
    /\ UNCHANGED <<file_csv, download_csv, list_of_row_lists_file_info,
                   fileFormat_list, fileName_list,
                   sorted_fileFormat_info,
                   sorted_fileNameExtensions_info, output_csv,
                   list_of_row_lists_download_info,
                   sorted_file_identifier_download_info,
                   intersection_list_with_file_format_info,
                   sorted_file_format_info,
                   sorted_filename_format_extensions_info, output_csv_2,
                   sorted_study_download_info,
                   sorted_file_count_info_by_study, harnessVars>>

Next ==
    \/ OutputMessage
    \/ ReadFileInfo
    \/ CreateFileFormatList
    \/ CreateFileNameList
    \/ CountFileFormats
    \/ CountFileNameExtensions
    \/ WritePreliminaryResults
    \/ RereadFileInfo
    \/ ReadDownloadInfo
    \/ DownloadFrequencyByIdentifier
    \/ CreateIntersectionList
    \/ DownloadFrequencyByFileFormat
    \/ DownloadFrequencyByExtension
    \/ WriteDownloadInfo
    \/ DownloadCountByStudy
    \/ FileCountByStudy
    \/ WriteStudyInfo

Spec == Init /\ [][Next]_vars

(***************************************************************************)
(* The extension derivation applied to any filename.                       *)
(***************************************************************************)
SuffixInit ==
    /\ pc = "suffix_call"
    /\ filename \in Names
    /\ suffix = <<>>
    /\ rankA = <<>>
    /\ rankB = <<>>
    /\ written = [preliminary |-> NoFile, download |-> NoFile, study |-> NoFile]
    /\ file_csv = [header |-> file_csv_header, rows |-> <<>>]
    /\ download_csv = [header |-> download_csv_header, rows |-> <<>>]
    /\ MainIdle

\* lines 223, 549
DeriveExtension ==
    /\ pc = "suffix_call"
    /\ suffix' = PathSuffix(filename)
    /\ pc' = "suffix_done"
    /\ UNCHANGED <<mainVars, filename, rankA, rankB, written>>

SuffixNext == DeriveExtension

SpecSuffix == SuffixInit /\ [][SuffixNext]_vars

(***************************************************************************)
(* The three writers applied to any two rankings.                          *)
(***************************************************************************)
WriterInit ==
    /\ pc = "writer_calls"
    /\ rankA \in Rankings
    /\ rankB \in Rankings
    /\ written = [preliminary |-> NoFile, download |-> NoFile, study |-> NoFile]
    /\ filename = <<>>
    /\ suffix = <<>>
    /\ file_csv = [header |-> file_csv_header, rows |-> <<>>]
    /\ download_csv = [header |-> download_csv_header, rows |-> <<>>]
    /\ MainIdle

CallWritePreliminary ==
    /\ pc = "writer_calls"
    /\ written.preliminary = NoFile
    /\ written' = [written EXCEPT
                     !.preliminary = write_preliminary_data_processing_results(rankA, rankB)]
    /\ UNCHANGED <<pc, mainVars, filename, suffix, rankA, rankB>>

CallWriteDownloadInfo ==
    /\ pc = "writer_calls"
    /\ written.download = NoFile
    /\ written' = [written EXCEPT
                     !.download = write_download_info_to_csv_file(rankA, rankB)]
    /\ UNCHANGED <<pc, mainVars, filename, suffix, rankA, rankB>>

CallWriteStudyInfo ==
    /\ pc = "writer_calls"
    /\ written.study = NoFile
    /\ written' = [written EXCEPT
                     !.study = write_study_info_to_csv_file(rankA, rankB)]
    /\ UNCHANGED <<pc, mainVars, filename, suffix, rankA, rankB>>

WriterNext ==
    \/ CallWritePreliminary
    \/ CallWriteDownloadInfo
    \/ CallWriteStudyInfo

SpecWriters == WriterInit /\ [][WriterNext]_vars

(***************************************************************************)
(* Positions of the main block, and what the run has computed so far.      *)
(***************************************************************************)
PcOrder ==
    <<"output_message",
      "read_file_info", "create_fileFormat_list", "create_fileName_list",
      "count_fileFormats", "count_fileNameExtensions", "write_preliminary",
      "reread_file_info", "read_download_info", "download_frequency_by_identifier",
      "create_intersection_list", "download_frequency_by_file_format",
      "download_frequency_by_extension", "write_download_info",
      "download_count_by_study", "file_count_by_study", "write_study_info", "done">>

\* The statement at position step has been executed.
Past(step) ==
    \E i, j \in 1..Len(PcOrder) : PcOrder[i] = step /\ PcOrder[j] = pc /\ i < j

FileIds == [i \in 1..Len(list_of_row_lists_file_info) |-> list_of_row_lists_file_info[i][3]]

FileFormats == [i \in 1..Len(list_of_row_lists_file_info) |-> list_of_row_lists_file_info[i][1]]

FileStudies == [i \in 1..Len(list_of_row_lists_file_info) |-> list_of_row_lists_file_info[i][4]]

FileExtensions ==
    [i \in 1..Len(list_of_row_lists_file_info) |->
       PathSuffix(list_of_row_lists_file_info[i][2])]

DownloadIds ==
    [i \in 1..Len(list_of_row_lists_download_info) |-> list_of_row_lists_download_info[i][1]]

DownloadStudies ==
    [i \in 1..Len(list_of_row_lists_download_info) |-> list_of_row_lists_download_info[i][3]]

DownloadExtensions ==
    [i \in 1..Len(list_of_row_lists_download_info) |->
       PathSuffix(list_of_row_lists_download_info[i][2])]

EntryFormats ==
    [i \in 1..Len(intersection_list_with_file_format_info) |->
       intersection_list_with_file_format_info[i][2]]

Range(s) == {s[i] : i \in 1..Len(s)}

Occurrences(s, x) == Cardinality({i \in 1..Len(s) : s[i] = x})

FileIdsDistinct == \A i, j \in 1..Len(FileIds) : i # j => FileIds[i] # FileIds[j]

CountOf(table, k) == IF k \in DictKeys(table) THEN DictGet(table, k) ELSE 0

RECURSIVE SumCounts(_, _)
\* Sum of table's counts over the keys in set S.
SumCounts(table, S) ==
    IF S = {} THEN 0
    ELSE LET k == CHOOSE x \in S : TRUE IN CountOf(table, k) + SumCounts(table, S \ {k})

\* The download ids equal to the id of a file record of format f.
IdsOfFormat(f) ==
    {d \in Range(DownloadIds) :
        \E i \in 1..Len(FileIds) : FileIds[i] = d /\ FileFormats[i] = f}

\* Download records whose id is the id of some file record.
MatchedDownloads == {i \in 1..Len(DownloadIds) : DownloadIds[i] \in Range(FileIds)}

(***************************************************************************)
(* C1.  With pairwise distinct file ids, the count the format rollup       *)
(* reports for a format f is the sum of the download counts of the         *)
(* download ids EQUAL to the id of a file record of format f; any other    *)
(* download id adds nothing.                                               *)
(***************************************************************************)
C1_FormatCountIsSumOverEqualIds ==
    (Past("download_frequency_by_file_format") /\ FileIdsDistinct) =>
        \A f \in Range(FileFormats) :
            CountOf(sorted_file_format_info, f)
                = SumCounts(sorted_file_identifier_download_info, IdsOfFormat(f))

(***************************************************************************)
(* C2.  With pairwise distinct file ids, the counts of the format rollup   *)
(* sum to the number of download records whose id is the id of some file   *)
(* record, which never exceeds the number of download records.             *)
(***************************************************************************)
C2_RollupSumIsMatchedDownloads ==
    (Past("download_frequency_by_file_format") /\ FileIdsDistinct) =>
        /\ SumValues(sorted_file_format_info) = Cardinality(MatchedDownloads)
        /\ SumValues(sorted_file_format_info) <= Len(list_of_row_lists_download_info)

(***************************************************************************)
(* Layout of a written report.                                             *)
(***************************************************************************)
Empty == <<>>

\* The key as a report shows it: the null-marker token for the empty key.
Rendered(key) == IF key = Empty THEN NullToken ELSE key

\* |A| + |B| data rows: A's rows fill the two left columns only, then B's
\* rows fill the two right columns only.
TwoBlockLayout(file, A, B) ==
    /\ Len(file.rows) = Len(A) + Len(B)
    /\ \A i \in 1..Len(A) :
         file.rows[i] = <<A[i][1], IntToStr(A[i][2]), Empty, Empty, Empty, Empty>>
    /\ \A i \in 1..Len(B) :
         file.rows[Len(A) + i]
             = <<Empty, Empty, Empty, Empty, Rendered(B[i][1]), IntToStr(B[i][2])>>

(***************************************************************************)
(* C3.  Each of the three reports holds, after its header, exactly         *)
(* |A| + |B| data rows: first A's (key, count) in the two left-block       *)
(* columns with the four other columns empty, then B's (key, count) in the *)
(* two right-block columns with the four other columns empty.              *)
(***************************************************************************)
C3_ReportsHaveTwoBlockLayout ==
    /\ Past("write_preliminary") =>
         TwoBlockLayout(output_csv, sorted_fileFormat_info, sorted_fileNameExtensions_info)
    /\ Past("write_download_info") =>
         TwoBlockLayout(output_csv_2, sorted_file_format_info,
                        sorted_filename_format_extensions_info)
    /\ Past("write_study_info") =>
         TwoBlockLayout(output_csv_3, sorted_study_download_info,
                        sorted_file_count_info_by_study)

\* The first two reports alone.
C3_FirstTwoReportsHaveTwoBlockLayout ==
    /\ Past("write_preliminary") =>
         TwoBlockLayout(output_csv, sorted_fileFormat_info, sorted_fileNameExtensions_info)
    /\ Past("write_download_info") =>
         TwoBlockLayout(output_csv_2, sorted_file_format_info,
                        sorted_filename_format_extensions_info)

(***************************************************************************)
(* Extension derivation, stated on the filename's text.                    *)
(***************************************************************************)
HasDot(s) == \E i \in 1..Len(s) : s[i] = "."

\* Text after a path's final component that pathlib drops: '/' separators
\* and '.' components.
IgnoredTail(t) ==
    \/ t = Empty
    \/ /\ t[1] = "/"
       /\ \A i \in 1..Len(t) : t[i] \in {"/", "."}
       /\ \A i \in 1..Len(t) :
            t[i] = "." => (t[i - 1] = "/" /\ (i = Len(t) \/ t[i + 1] = "/"))

\* s[p..q] is the extension of the final path component of s: it starts at
\* the component's last '.', which is neither its first nor its last
\* character, and runs to the component's end.
ExtensionAt(s, p, q) ==
    /\ 1 < p /\ p < q /\ q <= Len(s)
    /\ s[p] = "."
    /\ s[p - 1] # "/"
    /\ \A k \in (p + 1)..q : s[k] \notin {".", "/"}
    /\ IgnoredTail(SubSeq(s, q + 1, Len(s)))

HasExtension(s) == \E p, q \in 1..Len(s) : ExtensionAt(s, p, q)

(***************************************************************************)
(* C4, as stated.  For every filename the derived extension is the         *)
(* substring from the last '.' (inclusive) to the end of the string, and   *)
(* it is empty exactly when the string contains no '.'.                    *)
(***************************************************************************)
C4_ExtensionIsFromLastDotOfString ==
    pc = "suffix_done" =>
        /\ HasDot(filename) => suffix = SubSeq(filename, RFindDot(filename), Len(filename))
        /\ (suffix = Empty) <=> ~HasDot(filename)

(***************************************************************************)
(* C4, amended.  The extension is taken from the filename's final path     *)
(* component (the last '/'-separated part that is neither empty nor '.'):  *)
(* it is the substring from that component's last '.' (inclusive) to the   *)
(* component's end when that '.' is neither the first nor the last         *)
(* character of the component, and the empty string otherwise; so it is    *)
(* empty whenever the string contains no '.'.                              *)
(***************************************************************************)
C4_ExtensionIsFromLastDotOfFinalComponent ==
    pc = "suffix_done" =>
        /\ \A p, q \in 1..Len(filename) :
             ExtensionAt(filename, p, q) => suffix = SubSeq(filename, p, q)
        /\ ~HasExtension(filename) => suffix = Empty
        /\ ~HasDot(filename) => suffix = Empty

\* An extension derived from a name that ends in a separator.
C4_Witness ==
    /\ pc = "suffix_done"
    /\ filename = <<"a", ".", "a", "/">>
    /\ suffix = <<".", "a">>

(***************************************************************************)
(* C5.  In each of the three reports every key that is the empty string,   *)
(* in the left or in the right ranking, is written as the null-marker      *)
(* token and never as an empty field; a non-empty key is written           *)
(* unchanged.                                                              *)
(***************************************************************************)
KeysRendered(file, A, B) ==
    /\ \A i \in 1..Len(A) : file.rows[i][1] = Rendered(A[i][1])
    /\ \A i \in 1..Len(B) : file.rows[Len(A) + i][5] = Rendered(B[i][1])

C5_EmptyKeysWrittenAsNullToken ==
    /\ written.preliminary # NoFile => KeysRendered(written.preliminary, rankA, rankB)
    /\ written.download # NoFile => KeysRendered(written.download, rankA, rankB)
    /\ written.study # NoFile => KeysRendered(written.study, rankA, rankB)

\* The right ranking alone.
RightKeysRendered(file, A, B) ==
    \A i \in 1..Len(B) : file.rows[Len(A) + i][5] = Rendered(B[i][1])

C5_RightBlockOnly ==
    /\ written.preliminary # NoFile => RightKeysRendered(written.preliminary, rankA, rankB)
    /\ written.download # NoFile => RightKeysRendered(written.download, rankA, rankB)
    /\ written.study # NoFile => RightKeysRendered(written.study, rankA, rankB)

(***************************************************************************)
(* The tables the run produces, each with the keys it was tallied from.    *)
(***************************************************************************)
\* table tallies keys: the counts sum to the number of keys, and the rows
\* whose key is the null marker are counted under that key.
CountsEveryRow(table, keys) ==
    /\ SumValues(table) = Len(keys)
    /\ CountOf(table, NanString) = Occurrences(keys, NanString)

(***************************************************************************)
(* C6.  For each of the six tallies over an input of N rows, the counts    *)
(* of the resulting table sum to N; rows whose key is the null marker are  *)
(* tallied like any other and no row is dropped.                           *)
(***************************************************************************)
C6_TallyCountsSumToRows ==
    /\ Past("count_fileFormats") =>
         /\ CountsEveryRow(sorted_fileFormat_info, FileFormats)
         /\ SumValues(sorted_fileFormat_info) = Len(file_csv.rows)
    /\ Past("count_fileNameExtensions") =>
         /\ CountsEveryRow(sorted_fileNameExtensions_info, FileExtensions)
         /\ SumValues(sorted_fileNameExtensions_info) = Len(file_csv.rows)
    /\ Past("download_frequency_by_identifier") =>
         /\ CountsEveryRow(sorted_file_identifier_download_info, DownloadIds)
         /\ SumValues(sorted_file_identifier_download_info) = Len(download_csv.rows)
    /\ Past("download_frequency_by_extension") =>
         /\ CountsEveryRow(sorted_filename_format_extensions_info, DownloadExtensions)
         /\ SumValues(sorted_filename_format_extensions_info) = Len(download_csv.rows)
    /\ Past("download_count_by_study") =>
         /\ CountsEveryRow(sorted_study_download_info, DownloadStudies)
         /\ SumValues(sorted_study_download_info) = Len(download_csv.rows)
    /\ Past("file_count_by_study") =>
         /\ CountsEveryRow(sorted_file_count_info_by_study, FileStudies)
         /\ SumValues(sorted_file_count_info_by_study) = Len(file_csv.rows)

\* All six tallies done, over inputs of full length with null-marker studies
\* among both the file and the download records.
C6_Witness ==
    /\ pc = "done"
    /\ Len(list_of_row_lists_file_info) = MaxFiles
    /\ Len(list_of_row_lists_download_info) = MaxDownloads
    /\ NanString \in DictKeys(sorted_study_download_info)
    /\ NanString \in DictKeys(sorted_file_count_info_by_study)

(***************************************************************************)
(* C7.  The join has exactly one entry per file record whose id occurs     *)
(* among the download ids, in file-record order, and none for any other    *)
(* file record, however often an id is downloaded.                         *)
(***************************************************************************)
\* Positions of the file records whose id is downloaded at least once.
DownloadedFilePositions == {i \in 1..Len(FileIds) : FileIds[i] \in Range(DownloadIds)}

\* The k-th of them, in file-record order.
KthDownloadedFile(k) ==
    CHOOSE i \in DownloadedFilePositions :
        Cardinality({j \in DownloadedFilePositions : j < i}) = k - 1

C7_OneEntryPerDownloadedFileRecord ==
    Past("create_intersection_list") =>
        /\ Len(intersection_list_with_file_format_info) = Cardinality(DownloadedFilePositions)
        /\ \A k \in 1..Len(intersection_list_with_file_format_info) :
             /\ intersection_list_with_file_format_info[k][1] = FileIds[KthDownloadedFile(k)]
             /\ intersection_list_with_file_format_info[k][2] = FileFormats[KthDownloadedFile(k)]

\* Of two file records one is downloaded, more than once, and has the only
\* entry; the other is never downloaded and has none.
C7_Witness ==
    /\ Past("create_intersection_list")
    /\ Len(list_of_row_lists_file_info) = 2
    /\ Len(intersection_list_with_file_format_info) = 1
    /\ intersection_list_with_file_format_info[1][1] = FileIds[2]
    /\ Occurrences(DownloadIds, FileIds[2]) >= 2

(***************************************************************************)
(* C8.  The join example: file records [A csv, B txt] and download ids     *)
(* [A, A, C].                                                              *)
(***************************************************************************)
JoinExampleInput ==
    /\ Len(list_of_row_lists_file_info) = 2
    /\ FileIds = <<IdA, IdB>>
    /\ FileFormats = <<Csv, Txt>>
    /\ DownloadIds = <<IdA, IdA, IdC>>

\* C8, as stated: the only intersection entry is the pair (csv, A), format
\* first and id second; the format rollup is exactly {csv: 2}; C adds
\* nothing and txt does not appear.
C8_JoinExampleFormatFirst ==
    (Past("download_frequency_by_file_format") /\ JoinExampleInput) =>
        /\ intersection_list_with_file_format_info = <<<<Csv, IdA>>>>
        /\ CountOf(sorted_file_identifier_download_info, IdA) = 2
        /\ sorted_file_format_info = <<<<Csv, 2>>>>

\* C8, amended: the only intersection entry is the pair (A, csv), id first
\* and format second; the format rollup is exactly {csv: 2}; C adds nothing
\* and txt does not appear.
C8_JoinExampleIdFirst ==
    (Past("download_frequency_by_file_format") /\ JoinExampleInput) =>
        /\ intersection_list_with_file_format_info = <<<<IdA, Csv>>>>
        /\ CountOf(sorted_file_identifier_download_info, IdA) = 2
        /\ sorted_file_format_info = <<<<Csv, 2>>>>

C8_Witness == pc = "done" /\ JoinExampleInput

(***************************************************************************)
(* C9.  Every ranked table the run produces has pairwise distinct keys and *)
(* counts that are integers of at least 1; no bucket of the format rollup  *)
(* is left at 0.                                                           *)
(***************************************************************************)
DistinctKeysPositiveCounts(table) ==
    /\ \A i, j \in 1..Len(table) : i # j => table[i][1] # table[j][1]
    /\ \A i \in 1..Len(table) : table[i][2] \in Nat /\ table[i][2] >= 1

C9_TablesHaveDistinctKeysPositiveCounts ==
    /\ DistinctKeysPositiveCounts(sorted_fileFormat_info)
    /\ DistinctKeysPositiveCounts(sorted_fileNameExtensions_info)
    /\ DistinctKeysPositiveCounts(sorted_file_identifier_download_info)
    /\ DistinctKeysPositiveCounts(sorted_file_format_info)
    /\ DistinctKeysPositiveCounts(sorted_filename_format_extensions_info)
    /\ DistinctKeysPositiveCounts(sorted_study_download_info)
    /\ DistinctKeysPositiveCounts(sorted_file_count_info_by_study)
    /\ Past("download_frequency_by_file_format") =>
         DictKeys(sorted_file_format_info) = Range(EntryFormats)

\* A finished run whose format rollup has two buckets and whose tallies
\* count a repeated key.
C9_Witness ==
    /\ pc = "done"
    /\ Len(sorted_file_format_info) = 2
    /\ \E i \in 1..Len(sorted_file_identifier_download_info) :
         sorted_file_identifier_download_info[i][2] >= 2
    /\ Len(sorted_file_count_info_by_study) = 2

(***************************************************************************)
(* C10.  Every ranked table is in non-increasing order of count, and keys  *)
(* of equal count are in the order of their first insertion: first         *)
(* occurrence in the input for the tallies, first occurrence of the format *)
(* among the intersection entries for the format rollup.                   *)
(***************************************************************************)
FirstIndex(keys, k) == CHOOSE i \in 1..Len(keys) : keys[i] = k /\ \A j \in 1..(i - 1) : keys[j] # k

RankedByCountThenFirstSeen(table, keys) ==
    \A i, j \in 1..Len(table) :
        i < j =>
            /\ table[i][2] >= table[j][2]
            /\ table[i][2] = table[j][2] =>
                 FirstIndex(keys, table[i][1]) < FirstIndex(keys, table[j][1])

C10_TablesRankedByCountThenFirstSeen ==
    /\ Past("count_fileFormats") =>
         RankedByCountThenFirstSeen(sorted_fileFormat_info, FileFormats)
    /\ Past("count_fileNameExtensions") =>
         RankedByCountThenFirstSeen(sorted_fileNameExtensions_info, FileExtensions)
    /\ Past("download_frequency_by_identifier") =>
         RankedByCountThenFirstSeen(sorted_file_identifier_download_info, DownloadIds)
    /\ Past("download_frequency_by_file_format") =>
         RankedByCountThenFirstSeen(sorted_file_format_info, EntryFormats)
    /\ Past("download_frequency_by_extension") =>
         RankedByCountThenFirstSeen(sorted_filename_format_extensions_info,
                                    DownloadExtensions)
    /\ Past("download_count_by_study") =>
         RankedByCountThenFirstSeen(sorted_study_download_info, DownloadStudies)
    /\ Past("file_count_by_study") =>
         RankedByCountThenFirstSeen(sorted_file_count_info_by_study, FileStudies)

\* A finished run in which the sort moved a later key ahead of an earlier
\* one in the identifier table, and the format tally holds a tie.
C10_Witness ==
    /\ pc = "done"
    /\ \E i, j \in 1..Len(sorted_file_identifier_download_info) :
         /\ i < j
         /\ FirstIndex(DownloadIds, sorted_file_identifier_download_info[i][1])
              > FirstIndex(DownloadIds, sorted_file_identifier_download_info[j][1])
    /\ Len(sorted_fileFormat_info) = 2
    /\ sorted_fileFormat_info[1][2] = sorted_fileFormat_info[2][2]

(***************************************************************************)
(* Re-reading a written report: csv.reader gives every cell as text, the   *)
(* count is parsed back with int().                                        *)
(***************************************************************************)
DigitValue(c) == CASE c = "0" -> 0 [] c = "1" -> 1 [] c = "2" -> 2 [] c = "3" -> 3
                   [] c = "4" -> 4 [] c = "5" -> 5 [] c = "6" -> 6 [] c = "7" -> 7
                   [] c = "8" -> 8 [] c = "9" -> 9 [] OTHER -> -1

RECURSIVE StrToInt(_)
\* int(s) for decimal text; -1 stands for the ValueError of text that is
\* not a number (the empty cell included).
StrToInt(s) ==
    IF Len(s) = 0 \/ DigitValue(Last(s)) < 0 THEN -1
    ELSE IF Len(s) = 1 THEN DigitValue(s[1])
    ELSE IF StrToInt(Front(s)) < 0 THEN -1
    ELSE StrToInt(Front(s)) * 10 + DigitValue(Last(s))

\* The rows of a report whose left-block key column (column 1) is not empty.
LeftBlockRows(file) == SelectSeq(file.rows, LAMBDA row : row[1] # Empty)

\* The (key, count) pairs read back from the left-block columns.
ReadLeftBlock(file) ==
    [i \in 1..Len(LeftBlockRows(file)) |->
       <<LeftBlockRows(file)[i][1], StrToInt(LeftBlockRows(file)[i][2])>>]

\* C11: for each of the three reports of a run, re-reading the left-block
\* columns and keeping the rows whose left key column is not empty gives
\* back exactly the left ranking's (key, count) pairs, in its order.
C11_LeftBlockRoundTrip ==
    /\ Past("write_preliminary") => ReadLeftBlock(output_csv) = sorted_fileFormat_info
    /\ Past("write_download_info") => ReadLeftBlock(output_csv_2) = sorted_file_format_info
    /\ Past("write_study_info") => ReadLeftBlock(output_csv_3) = sorted_study_download_info

\* The first two reports do round-trip in every run: their left rankings
\* never hold an empty key, and only left rows fill column 1.
C11_FirstTwoReportsRoundTrip ==
    /\ Past("write_preliminary") => ReadLeftBlock(output_csv) = sorted_fileFormat_info
    /\ Past("write_download_info") => ReadLeftBlock(output_csv_2) = sorted_file_format_info

\* The same round trip for the three writers called on any two rankings.
C11_WritersRoundTrip ==
    /\ written.preliminary # NoFile => ReadLeftBlock(written.preliminary) = rankA
    /\ written.download # NoFile => ReadLeftBlock(written.download) = rankA
    /\ written.study # NoFile => ReadLeftBlock(written.study) = rankA

\* For the first two writers the round trip holds whenever the left ranking
\* has no empty key.
C11_FirstTwoWritersRoundTripNonEmptyKeys ==
    (\A i \in 1..Len(rankA) : rankA[i][1] # Empty) =>
       /\ written.preliminary # NoFile => ReadLeftBlock(written.preliminary) = rankA
       /\ written.download # NoFile => ReadLeftBlock(written.download) = rankA

(***************************************************************************)
(* The two readers applied to any source table: headers that lack          *)
(* requested columns, carry extra ones or order them differently; cells    *)
(* that are empty, spell a missing value, or are cut off at the line end.  *)
(***************************************************************************)
ReaderCells == {<<>>, <<"a">>, <<"N", "A">>}

\* The lines of a table with the given header: at most as many fields as
\* the header has, and not a blank line (pd.read_csv skips blank lines, they
\* are not data rows).
ReaderLines(header) == SeqsUpTo(ReaderCells, Len(header)) \ {<<>>, <<Empty>>}

ReaderHeaders == {<<"study", "id">>, <<"dataType", "name">>, <<"dataType">>}

ReaderTables ==
    UNION {{[header |-> h, rows |-> r] : r \in SeqsUpTo(ReaderLines(h), MaxFiles)} :
              h \in ReaderHeaders}
    \cup {[header |-> file_csv_header, rows |-> r] : r \in SeqsUpTo(FileSourceRows, MaxFiles)}
    \cup {[header |-> download_csv_header, rows |-> r] :
             r \in SeqsUpTo(DownloadSourceRows, MaxFiles)}

ReaderInit ==
    /\ pc = "reader_calls"
    /\ file_csv \in ReaderTables
    /\ download_csv = file_csv
    /\ MainIdle
    /\ HarnessIdle

\* lines 46-102
CallReadFileInfo ==
    /\ pc = "reader_calls"
    /\ list_of_row_lists_file_info' = read_file_info_csv_with_pandas(file_csv)
    /\ pc' = "reader_file_done"
    /\ UNCHANGED <<file_csv, download_csv, fileFormat_list, fileName_list,
                   sorted_fileFormat_info, sorted_fileNameExtensions_info, output_csv,
                   list_of_row_lists_download_info, sorted_file_identifier_download_info,
                   intersection_list_with_file_format_info, sorted_file_format_info,
                   sorted_filename_format_extensions_info, output_csv_2,
                   sorted_study_download_info, sorted_file_count_info_by_study,
                   output_csv_3, harnessVars>>

\* lines 294-350
CallReadDownloadInfo ==
    /\ pc = "reader_file_done"
    /\ list_of_row_lists_download_info' = read_download_info_csv_with_pandas(download_csv)
    /\ pc' = "reader_done"
    /\ UNCHANGED <<file_csv, download_csv, list_of_row_lists_file_info, fileFormat_list,
                   fileName_list, sorted_fileFormat_info, sorted_fileNameExtensions_info,
                   output_csv, sorted_file_identifier_download_info,
                   intersection_list_with_file_format_info, sorted_file_format_info,
                   sorted_filename_format_extensions_info, output_csv_2,
                   sorted_study_download_info, sorted_file_count_info_by_study,
                   output_csv_3, harnessVars>>

ReaderNext ==
    \/ CallReadFileInfo
    \/ CallReadDownloadInfo

SpecReader == ReaderInit /\ [][ReaderNext]_vars

\* The source cell of line i under the column named h, if the table has it.
HasSourceCell(table, i, h) ==
    \E c \in 1..Len(table.header) :
       /\ table.header[c] = h
       /\ c <= Len(table.rows[i])
       /\ table.rows[i][c] \notin NaValues

SourceCell(table, i, h) ==
    table.rows[i][CHOOSE c \in 1..Len(table.header) : table.header[c] = h]

\* One record per data line, in line order; one cell per requested column,
\* in the requested order: the source text where the line has it, the
\* null-marker string otherwise; never a native null or an empty cell.
ReaderContract(records, table, requested) ==
    /\ Len(records) = Len(table.rows)
    /\ \A i \in 1..Len(records) :
         /\ Len(records[i]) = Len(requested)
         /\ \A j \in 1..Len(requested) :
              /\ records[i][j] =
                   IF HasSourceCell(table, i, requested[j])
                   THEN SourceCell(table, i, requested[j]) ELSE NanString
              /\ records[i][j] # NaN
              /\ records[i][j] # Empty

\* C12: each reader returns one record per data row in source order, with
\* the requested columns in their fixed order, extra columns ignored, and
\* the null-marker string for an absent column and for a missing or empty
\* cell.
C12_ReaderProjectsAndNormalizes ==
    /\ pc \in {"reader_file_done", "reader_done"} =>
         ReaderContract(list_of_row_lists_file_info, file_csv,
                        <<"fileFormat", "name", "id", "study">>)
    /\ pc = "reader_done" =>
         ReaderContract(list_of_row_lists_download_info, download_csv,
                        <<"id", "name", "study">>)

\* Both readers have read a two-line table that lacks the id column, has
\* an extra column, one line cut short and one empty cell; the two records
\* differ, so their order shows.
C12_Witness ==
    /\ pc = "reader_done"
    /\ file_csv.header = <<"dataType", "name">>
    /\ Len(file_csv.rows) = 2
    /\ Len(file_csv.rows[1]) = 1
    /\ file_csv.rows[2] = <<<<"a">>, <<"a">>>>
    /\ list_of_row_lists_file_info =
         <<<<NanString, NanString, NanString, NanString>>,
           <<NanString, <<"a">>, NanString, NanString>>>>
    /\ list_of_row_lists_download_info =
         <<<<NanString, NanString, NanString>>, <<NanString, <<"a">>, NanString>>>>


\* C13: the derivation gives ".csv" for "a.csv", "" for "a", "" for "",
\* ".gz" for "a.tar.gz" and "" for the reader's null-marker string "nan";
\* for every string it returns a string, a piece of its input.
C13_ExtensionExamples ==
    pc = "suffix_done" =>
       /\ filename = <<"a", ".", "c", "s", "v">> => suffix = <<".", "c", "s", "v">>
       /\ filename = <<"a">> => suffix = <<>>
       /\ filename = <<>> => suffix = <<>>
       /\ filename = <<"a", ".", "t", "a", "r", ".", "g", "z">> => suffix = <<".", "g", "z">>
       /\ filename = NanString => suffix = <<>>
       /\ suffix \in Seq(STRING)
       /\ StrContains(suffix, filename)

\* The derivation has returned ".gz" for "a.tar.gz".
C13_Witness ==
    /\ pc = "suffix_done"
    /\ filename = <<"a", ".", "t", "a", "r", ".", "g", "z">>
    /\ suffix = <<".", "g", "z">>

(***************************************************************************)
(* The run with I/O failures.  No statement of the main block is inside a  *)
(* try block, so the exception of a failed read, of a failed write of a    *)
(* report or of a failed write to standard output ends the run at that     *)
(* statement.                                                              *)
(***************************************************************************)
\* A plausible slip: the exception swallowed, the run going on with the
\* next statement.
ContinueAfterFailure(step) ==
    PcOrder[(CHOOSE i \in 1..Len(PcOrder) : PcOrder[i] = step) + 1]

\* Where the run is after the step's file I/O has raised.
AfterFailure(step) ==
    CASE step = "read_file_info" -> "failed_read_file_info"
      [] step = "write_preliminary" -> "failed_write_preliminary"
      [] step = "reread_file_info" -> "failed_reread_file_info"
      [] step = "read_download_info" -> "failed_read_download_info"
      [] step = "write_download_info" -> "failed_write_download_info"
      [] step = "write_study_info" -> "failed_write_study_info"

\* The statements that read or write a file.
FileIOSteps ==
    {"read_file_info", "write_preliminary", "reread_file_info", "read_download_info",
     "write_download_info", "write_study_info"}

\* The positions reached through a write to standard output: output_message
\* itself (line 756), and every statement with print calls between it and
\* the statement before it (none before lines 820 and 830); "done" stands
\* for the closing prints of lines 862-870.
StdoutPositions ==
    {"output_message", "read_file_info", "create_fileFormat_list", "create_fileName_list",
     "count_fileFormats", "count_fileNameExtensions", "write_preliminary",
     "reread_file_info", "download_frequency_by_identifier", "create_intersection_list",
     "download_frequency_by_extension", "write_download_info", "download_count_by_study",
     "file_count_by_study", "write_study_info", "done"}

\* Where the run is after a write to standard output on the way to the
\* position has raised (BrokenPipeError, OSError).
AfterStdoutFailure(position) ==
    CASE position = "output_message" -> "stdout_failed_in_output_message"
      [] position = "read_file_info" -> "stdout_failed_before_read_file_info"
      [] position = "create_fileFormat_list" -> "stdout_failed_before_create_fileFormat_list"
      [] position = "create_fileName_list" -> "stdout_failed_before_create_fileName_list"
      [] position = "count_fileFormats" -> "stdout_failed_before_count_fileFormats"
      [] position = "count_fileNameExtensions" ->
           "stdout_failed_before_count_fileNameExtensions"
      [] position = "write_preliminary" -> "stdout_failed_before_write_preliminary"
      [] position = "reread_file_info" -> "stdout_failed_before_reread_file_info"
      [] position = "download_frequency_by_identifier" ->
           "stdout_failed_before_download_frequency_by_identifier"
      [] position = "create_intersection_list" ->
           "stdout_failed_before_create_intersection_list"
      [] position = "download_frequency_by_extension" ->
           "stdout_failed_before_download_frequency_by_extension"
      [] position = "write_download_info" -> "stdout_failed_before_write_download_info"
      [] position = "download_count_by_study" ->
           "stdout_failed_before_download_count_by_study"
      [] position = "file_count_by_study" -> "stdout_failed_before_file_count_by_study"
      [] position = "write_study_info" -> "stdout_failed_before_write_study_info"
      [] position = "done" -> "stdout_failed_after_write_study_info"

\* What is read back of a line of which only the first bytes reached the
\* disk: its first fields, the last of them possibly cut short.  (No byte
\* of the line written is no line at all; the line without its terminator
\* reads back whole.)
CutLines(line) ==
    UNION {{SubSeq(line, 1, k - 1) \o <<SubSeq(line[k], 1, p)>> : p \in 0..Len(line[k])} :
              k \in 1..Len(line)}
    \ {<<<<>>>>}

\* What a failed write leaves at the output path, as it reads back: nothing
\* when open() failed or no byte was written, else the bytes written before
\* the failure, which may end inside the header line or inside a row, or
\* lack only the last line terminator.
PartialFiles(file) ==
    {NoFile}
    \cup {[header |-> h, rows |-> <<>>] : h \in CutLines(file.header)}
    \cup UNION {{[header |-> file.header,
                  rows |-> Append(SubSeq(file.rows, 1, n - 1), l)] :
                    l \in CutLines(file.rows[n])} : n \in 1..Len(file.rows)}

FailReadFileInfo ==
    /\ pc = "read_file_info"
    /\ pc' = AfterFailure("read_file_info")
    /\ UNCHANGED <<mainVars, harnessVars>>

\* line 798
FailWritePreliminaryResults ==
    /\ pc = "write_preliminary"
    /\ output_csv' \in PartialFiles(write_preliminary_data_processing_results(
                           sorted_fileFormat_info, sorted_fileNameExtensions_info))
    /\ pc' = AfterFailure("write_preliminary")
    /\ UNCHANGED <<file_csv, download_csv, list_of_row_lists_file_info, fileFormat_list,
                   fileName_list, sorted_fileFormat_info, sorted_fileNameExtensions_info,
                   list_of_row_lists_download_info, sorted_file_identifier_download_info,
                   intersection_list_with_file_format_info, sorted_file_format_info,
                   sorted_filename_format_extensions_info, output_csv_2,
                   sorted_study_download_info, sorted_file_count_info_by_study,
                   output_csv_3, harnessVars>>

\* line 818
FailRereadFileInfo ==
    /\ pc = "reread_file_info"
    /\ pc' = AfterFailure("reread_file_info")
    /\ UNCHANGED <<mainVars, harnessVars>>

\* line 820
FailReadDownloadInfo ==
    /\ pc = "read_download_info"
    /\ pc' = AfterFailure("read_download_info")
    /\ UNCHANGED <<mainVars, harnessVars>>

\* line 838
FailWriteDownloadInfo ==
    /\ pc = "write_download_info"
    /\ output_csv_2' \in PartialFiles(write_download_info_to_csv_file(
                             sorted_file_format_info,
                             sorted_filename_format_extensions_info))
    /\ pc' = AfterFailure("write_download_info")
    /\ UNCHANGED <<file_csv, download_csv, list_of_row_lists_file_info, fileFormat_list,
                   fileName_list, sorted_fileFormat_info, sorted_fileNameExtensions_info,
                   output_csv, list_of_row_lists_download_info,
                   sorted_file_identifier_download_info,
                   intersection_list_with_file_format_info, sorted_file_format_info,
                   sorted_filename_format_extensions_info,
                   sorted_study_download_info, sorted_file_count_info_by_study,
                   output_csv_3, harnessVars>>

\* line 860
FailWriteStudyInfo ==
    /\ pc = "write_study_info"
    /\ output_csv_3' \in PartialFiles(write_study_info_to_csv_file(
                             sorted_study_download_info, sorted_file_count_info_by_study))
    /\ pc' = AfterFailure("write_study_info")
    /\ UNCHANGED <<file_csv, download_csv, list_of_row_lists_file_info, fileFormat_list,
                   fileName_list, sorted_fileFormat_info, sorted_fileNameExtensions_info,
                   output_csv, list_of_row_lists_download_info,
                   sorted_file_identifier_download_info,
                   intersection_list_with_file_format_info, sorted_file_format_info,
                   sorted_filename_format_extensions_info, output_csv_2,
                   sorted_study_download_info, sorted_file_count_info_by_study,
                   harnessVars>>


\* lines 34-35: sys.stdout.write or flush raises inside output_message.
FailOutputMessage ==
    /\ pc = "output_message"
    /\ pc' = AfterStdoutFailure(pc)
    /\ UNCHANGED <<mainVars, harnessVars>>

\* One of the print calls between two statements raises (lines 758-767,
\* 770-771, ..., 862-870): the run ends with what was assigned so far.
FailPrint ==
    /\ pc \in StdoutPositions \ {"output_message"}
    /\ pc' = AfterStdoutFailure(pc)
    /\ UNCHANGED <<mainVars, harnessVars>>

IOFailure ==
    \/ FailOutputMessage
    \/ FailPrint
    \/ FailReadFileInfo
    \/ FailWritePreliminaryResults
    \/ FailRereadFileInfo
    \/ FailReadDownloadInfo
    \/ FailWriteDownloadInfo
    \/ FailWriteStudyInfo

NextOrFailure ==
    \/ Next
    \/ IOFailure

SpecFailures == Init /\ [][NextOrFailure]_vars

FailedPcs ==
    {AfterFailure(step) : step \in FileIOSteps}
    \cup {AfterStdoutFailure(position) : position \in StdoutPositions}

\* The position at which the failed run ended.
EndedAt ==
    CHOOSE s \in FileIOSteps \cup StdoutPositions :
       \/ s \in FileIOSteps /\ AfterFailure(s) = pc
       \/ s \in StdoutPositions /\ AfterStdoutFailure(s) = pc

\* The place of a position in the run.
Pos(step) == CHOOSE i \in 1..Len(PcOrder) : PcOrder[i] = step

\* The file-info report is on disk, completely written.
FileInfoReportComplete ==
    /\ output_csv # NoFile
    /\ output_csv = write_preliminary_data_processing_results(
                        sorted_fileFormat_info, sorted_fileNameExtensions_info)

DownloadInfoReportComplete ==
    /\ output_csv_2 # NoFile
    /\ output_csv_2 = write_download_info_to_csv_file(
                          sorted_file_format_info, sorted_filename_format_extensions_info)

StudyInfoReportComplete ==
    /\ output_csv_3 # NoFile
    /\ output_csv_3 = write_study_info_to_csv_file(
                          sorted_study_download_info, sorted_file_count_info_by_study)

\* What the failed run has left behind: what the statements before the
\* failure assigned and wrote, and nothing of the statements after it.
StateAtFailure ==
    pc \in FailedPcs =>
       LET end == Pos(EndedAt)
           RanBeforeEnd(step) == Pos(step) < end
       IN
       /\ ~RanBeforeEnd("read_file_info") => list_of_row_lists_file_info = <<>>
       /\ ~RanBeforeEnd("create_fileFormat_list") => fileFormat_list = <<>>
       /\ ~RanBeforeEnd("create_fileName_list") => fileName_list = <<>>
       /\ ~RanBeforeEnd("count_fileFormats") => sorted_fileFormat_info = <<>>
       /\ ~RanBeforeEnd("count_fileNameExtensions") => sorted_fileNameExtensions_info = <<>>
       /\ ~RanBeforeEnd("read_download_info") => list_of_row_lists_download_info = <<>>
       /\ ~RanBeforeEnd("download_frequency_by_identifier") =>
            sorted_file_identifier_download_info = <<>>
       /\ ~RanBeforeEnd("create_intersection_list") =>
            intersection_list_with_file_format_info = <<>>
       /\ ~RanBeforeEnd("download_frequency_by_file_format") => sorted_file_format_info = <<>>
       /\ ~RanBeforeEnd("download_frequency_by_extension") =>
            sorted_filename_format_extensions_info = <<>>
       /\ ~RanBeforeEnd("download_count_by_study") => sorted_study_download_info = <<>>
       /\ ~RanBeforeEnd("file_count_by_study") => sorted_file_count_info_by_study = <<>>
       /\ RanBeforeEnd("write_preliminary") => FileInfoReportComplete
       /\ RanBeforeEnd("write_download_info") => DownloadInfoReportComplete
       /\ RanBeforeEnd("write_study_info") => StudyInfoReportComplete
       /\ (~RanBeforeEnd("write_preliminary") /\ pc # AfterFailure("write_preliminary")) =>
            output_csv = NoFile
       /\ (~RanBeforeEnd("write_download_info")
             /\ pc # AfterFailure("write_download_info")) => output_csv_2 = NoFile
       /\ (~RanBeforeEnd("write_study_info") /\ pc # AfterFailure("write_study_info")) =>
            output_csv_3 = NoFile

\* The download log could not be read: the file-info report is there,
\* complete, and the other two reports are not.
StateAtFailedDownloadRead ==
    pc = "failed_read_download_info" =>
       /\ FileInfoReportComplete
       /\ output_csv_2 = NoFile
       /\ output_csv_3 = NoFile

\* C14: a failed read or write ends the run at that statement: every step
\* either is a statement of the run completing or leads to a failed
\* position, from which no step is taken (no retry, no cleanup); nothing
\* after the failing statement has run, and the
\* reports written before it are still complete.  In particular, when
\* reading the download log fails, the file-info report is written and
\* the other two reports never are.
C14_FailureEndsRunKeepingEarlierReports ==
    /\ []StateAtFailure
    /\ []StateAtFailedDownloadRead
    /\ [][(pc' \in FailedPcs) \/ Next]_vars
    /\ [][(pc \in FailedPcs) => (vars' = vars)]_vars

\* Reading the download log has failed after a file-info report with two
\* rows or more was written.
C14_Witness ==
    /\ pc = "failed_read_download_info"
    /\ Len(output_csv.rows) >= 2
    /\ output_csv_2 = NoFile
    /\ output_csv_3 = NoFile

(***************************************************************************)
(* The identifier tests of the format rollup, counted as its loops run.    *)
(***************************************************************************)
RECURSIVE InnerLoopTests(_)
\* "if key in sub_list[0]" is evaluated once for every sub_list.
InnerLoopTests(entries) ==
    IF entries = <<>> THEN 0 ELSE InnerLoopTests(Front(entries)) + 1

RECURSIVE OuterLoopTests(_, _)
\* The inner loop runs once for every item of the identifier table.
OuterLoopTests(items, entries) ==
    IF items = <<>> THEN 0
    ELSE OuterLoopTests(Front(items), entries) + InnerLoopTests(entries)

\* The tests made by the call of line 830.
RollupIdTests ==
    OuterLoopTests(sorted_file_identifier_download_info,
                   intersection_list_with_file_format_info)

\* C15: the format rollup decides identifier membership by hash lookups,
\* one per record at most, so the number of identifier tests it makes is
\* bounded by the number of file records plus the number of download
\* records and does not grow as the product of two collection sizes.
C15_IdTestsLinearInRecords ==
    Past("download_frequency_by_file_format") =>
       RollupIdTests <= Len(list_of_row_lists_file_info)
                          + Len(list_of_row_lists_download_info)

\* What the code does on every run: one test for every pair of a distinct
\* download identifier and an intersection entry.
C15_RollupTestsAreProduct ==
    Past("download_frequency_by_file_format") =>
       RollupIdTests = Len(sorted_file_identifier_download_info)
                         * Len(intersection_list_with_file_format_info)

\* A report exists exactly when its write statement has run; the write
\* statements are at positions 6, 13 and 16 of the run, in that order.
ReportsWrittenInOrder ==
    /\ output_csv # NoFile <=> Past("write_preliminary")
    /\ output_csv_2 # NoFile <=> Past("write_download_info")
    /\ output_csv_3 # NoFile <=> Past("write_study_info")
    /\ output_csv_2 # NoFile => output_csv # NoFile
    /\ output_csv_3 # NoFile => output_csv_2 # NoFile

\* A written report holds the two rankings computed before it.
ReportsHoldComputedRankings ==
    /\ output_csv # NoFile =>
         /\ Past("count_fileFormats") /\ Past("count_fileNameExtensions")
         /\ output_csv = write_preliminary_data_processing_results(
                             sorted_fileFormat_info, sorted_fileNameExtensions_info)
    /\ output_csv_2 # NoFile =>
         /\ Past("download_frequency_by_file_format")
         /\ Past("download_frequency_by_extension")
         /\ output_csv_2 = write_download_info_to_csv_file(
                               sorted_file_format_info,
                               sorted_filename_format_extensions_info)
    /\ output_csv_3 # NoFile =>
         /\ Past("download_count_by_study") /\ Past("file_count_by_study")
         /\ output_csv_3 = write_study_info_to_csv_file(
                               sorted_study_download_info, sorted_file_count_info_by_study)

\* Every ranking is computed from the records a completed reader call
\* returned; the file table is read before the first report and once more
\* before the join.
RankingsFromReadRecords ==
    /\ Past("read_file_info") =>
         list_of_row_lists_file_info = read_file_info_csv_with_pandas(file_csv)
    /\ Past("read_download_info") =>
         list_of_row_lists_download_info = read_download_info_csv_with_pandas(download_csv)
    /\ Past("count_fileFormats") =>
         sorted_fileFormat_info =
            count_fileFormats(create_fileFormat_list(list_of_row_lists_file_info))
    /\ Past("count_fileNameExtensions") =>
         sorted_fileNameExtensions_info =
            count_fileNameExtensions(create_fileName_list(list_of_row_lists_file_info))
    /\ Past("download_frequency_by_identifier") =>
         sorted_file_identifier_download_info =
            download_frequency_by_identifier(list_of_row_lists_download_info)
    /\ Past("create_intersection_list") =>
         /\ Past("reread_file_info")
         /\ intersection_list_with_file_format_info =
              create_intersection_list(list_of_row_lists_file_info,
                                       list_of_row_lists_download_info)
    /\ Past("download_frequency_by_file_format") =>
         sorted_file_format_info =
            download_frequency_by_file_format(intersection_list_with_file_format_info,
                                              sorted_file_identifier_download_info)
    /\ Past("download_frequency_by_extension") =>
         sorted_filename_format_extensions_info =
            download_frequency_by_filename_format_extension(list_of_row_lists_download_info)
    /\ Past("download_count_by_study") =>
         sorted_study_download_info = download_count_by_study(list_of_row_lists_download_info)
    /\ Past("file_count_by_study") =>
         sorted_file_count_info_by_study = file_count_by_study(list_of_row_lists_file_info)

\* Every step takes the run to the next position; a report changes only in
\* the step of its write statement.
StepInOrder ==
    /\ \E i \in 1..(Len(PcOrder) - 1) : pc = PcOrder[i] /\ pc' = PcOrder[i + 1]
    /\ output_csv' # output_csv => pc = "write_preliminary"
    /\ output_csv_2' # output_csv_2 => pc = "write_download_info"
    /\ output_csv_3' # output_csv_3 => pc = "write_study_info"

\* C16: when no I/O step fails, the run is always at a statement of the
\* main block or done, every step takes it one position on, and it ends
\* with exactly the three reports written in
\* the order file-info, download-info, study-info; each report is written
\* only after both its rankings were computed, and every ranking is
\* computed from records returned by an earlier reader call.
C16_RunWritesThreeReportsInOrder ==
    /\ [](\E i \in 1..Len(PcOrder) : pc = PcOrder[i])
    /\ [](pc = "done" =>
            output_csv # NoFile /\ output_csv_2 # NoFile /\ output_csv_3 # NoFile)
    /\ []ReportsWrittenInOrder
    /\ []ReportsHoldComputedRankings
    /\ []RankingsFromReadRecords
    /\ [][StepInOrder]_vars

\* A finished run with at least two rows in each of the three reports.
C16_Witness ==
    /\ pc = "done"
    /\ Len(output_csv.rows) >= 2
    /\ Len(output_csv_2.rows) >= 2
    /\ Len(output_csv_3.rows) >= 2

\* The reorderings of a list of records.
Reorderings(records) ==
    {[i \in 1..Len(records) |-> records[f[i]]] : f \in Permutations(1..Len(records))}

\* A ranking as a key-to-count mapping, and its counts in rank order.
AsMapping(table) == {<<table[i][1], table[i][2]>> : i \in 1..Len(table)}

CountsInOrder(table) == [i \in 1..Len(table) |-> table[i][2]]

\* Two rankings with the same mapping and the same counts rank by rank, so
\* that they differ at most in the order of keys of equal count.
SameUpToTies(t1, t2) ==
    /\ AsMapping(t1) = AsMapping(t2)
    /\ CountsInOrder(t1) = CountsInOrder(t2)

\* C17: in a finished run, each of the six tallies and the format rollup,
\* applied to any reordering of the file records or of the download
\* records, gives the same key-to-count mapping as the run computed; only
\* the order of keys with equal counts may differ.
C17_TalliesIndependentOfRecordOrder ==
    pc = "done" =>
       /\ \A files \in Reorderings(list_of_row_lists_file_info) :
            /\ SameUpToTies(count_fileFormats(create_fileFormat_list(files)),
                            sorted_fileFormat_info)
            /\ SameUpToTies(count_fileNameExtensions(create_fileName_list(files)),
                            sorted_fileNameExtensions_info)
            /\ SameUpToTies(file_count_by_study(files), sorted_file_count_info_by_study)
            /\ SameUpToTies(
                 download_frequency_by_file_format(
                    create_intersection_list(files, list_of_row_lists_download_info),
                    sorted_file_identifier_download_info),
                 sorted_file_format_info)
       /\ \A downloads \in Reorderings(list_of_row_lists_download_info) :
            /\ SameUpToTies(download_frequency_by_identifier(downloads),
                            sorted_file_identifier_download_info)
            /\ SameUpToTies(download_frequency_by_filename_format_extension(downloads),
                            sorted_filename_format_extensions_info)
            /\ SameUpToTies(download_count_by_study(downloads), sorted_study_download_info)
            /\ SameUpToTies(
                 download_frequency_by_file_format(
                    create_intersection_list(list_of_row_lists_file_info, downloads),
                    download_frequency_by_identifier(downloads)),
                 sorted_file_format_info)

\* A finished run over three downloads with a repeated study that is not
\* in consecutive records, and two file records of different formats both
\* downloaded: reordering changes the order in which keys are met.
C17_Witness ==
    /\ pc = "done"
    /\ Len(list_of_row_lists_download_info) = 3
    /\ list_of_row_lists_download_info[1][3] = list_of_row_lists_download_info[3][3]
    /\ list_of_row_lists_download_info[1][3] # list_of_row_lists_download_info[2][3]
    /\ Len(intersection_list_with_file_format_info) = 2
    /\ intersection_list_with_file_format_info[1][2]
         # intersection_list_with_file_format_info[2][2]

\* A step changes a record list only by reading it, and a ranking, a
\* projection or the entry list only by computing it: every other call
\* (tally, join, rollup, writer) leaves what it was passed as it was.
ArgumentsLeftAlone ==
    /\ list_of_row_lists_file_info' # list_of_row_lists_file_info =>
         pc \in {"read_file_info", "reread_file_info"}
    /\ list_of_row_lists_download_info' # list_of_row_lists_download_info =>
         pc = "read_download_info"
    /\ fileFormat_list' # fileFormat_list => pc = "create_fileFormat_list"
    /\ fileName_list' # fileName_list => pc = "create_fileName_list"
    /\ sorted_fileFormat_info' # sorted_fileFormat_info => pc = "count_fileFormats"
    /\ sorted_fileNameExtensions_info' # sorted_fileNameExtensions_info =>
         pc = "count_fileNameExtensions"
    /\ sorted_file_identifier_download_info' # sorted_file_identifier_download_info =>
         pc = "download_frequency_by_identifier"
    /\ intersection_list_with_file_format_info' # intersection_list_with_file_format_info =>
         pc = "create_intersection_list"
    /\ sorted_file_format_info' # sorted_file_format_info =>
         pc = "download_frequency_by_file_format"
    /\ sorted_filename_format_extensions_info' # sorted_filename_format_extensions_info =>
         pc = "download_frequency_by_extension"
    /\ sorted_study_download_info' # sorted_study_download_info =>
         pc = "download_count_by_study"
    /\ sorted_file_count_info_by_study' # sorted_file_count_info_by_study =>
         pc = "file_count_by_study"

\* The record lists section 3 works on are the ones section 2 read.
Section3ReusesSection2Records ==
    pc \in {"download_count_by_study", "file_count_by_study", "write_study_info", "done"} =>
       /\ list_of_row_lists_file_info = read_file_info_csv_with_pandas(file_csv)
       /\ list_of_row_lists_download_info = read_download_info_csv_with_pandas(download_csv)

\* C18: no tally, join, rollup or writer changes the record list or the
\* ranking it is passed (a writer puts the null token in the row it
\* writes, not in the ranking): the record lists read in section 2 are the
\* same when section 3 uses them, and a ranking is the same after it is
\* written as before.
C18_CallsLeaveArgumentsUnchanged ==
    /\ [][ArgumentsLeftAlone]_vars
    /\ []Section3ReusesSection2Records

\* A finished run whose first report shows "[NULL]" for an empty extension
\* while the extension ranking still holds the empty key, and whose
\* section 3 tallies are not empty.
C18_Witness ==
    /\ pc = "done"
    /\ \E i \in 1..Len(sorted_fileNameExtensions_info) :
          sorted_fileNameExtensions_info[i][1] = Empty
    /\ \E r \in 1..Len(output_csv.rows) : output_csv.rows[r][5] = NullToken
    /\ sorted_study_download_info # <<>>
    /\ sorted_file_count_info_by_study # <<>>

====
